---- MODULE Spec2Model ----
(***************************************************************************)
(* zip_folder.py: archive a directory tree into a stored (uncompressed)    *)
(* zip container, record one SHA-256 digest per file in a line-oriented    *)
(* manifest, and verify the container against the manifest.                *)
(*                                                                         *)
(* Strings are sequences of one-character strings, so that replace, strip  *)
(* and split work on characters as they do in the program.  A file's       *)
(* content is a number standing for one byte string; sha256 is injective   *)
(* on contents (an ideal hash) and hex-encoded.                            *)
(***************************************************************************)
EXTENDS Integers, Sequences, FiniteSets, TLC

\* ---------------------------------------------------------------- bounds
MaxFiles == 2        \* files in the source tree
MaxContent == 1      \* contents are 0..MaxContent
MaxEnvEvents == 1    \* changes another process makes to the source tree
MaxTamper == 1       \* changes made to the archive at rest

\* str(rel_path) of the files a source tree may hold.  "d/a" and the file
\* named "d\a" can exist together on a POSIX system; "c:a" is a file name
\* holding a colon.
NativePaths ==
  { <<"a">>, <<"d", "/", "a">>, <<"d", "\\", "a">>, <<"c", ":", "a">> }

Contents == 0 .. MaxContent

VARIABLES
  tree,          \* the source tree: native path -> [data, readable]
  srcValid,      \* args.source_folder exists and is a directory
  verifyFlag,    \* args.verify
  pc,            \* position of main / zip_folder
  todo,          \* files os.walk has still to yield
  cur,           \* file_path of the current loop iteration
  file_hashes,   \* zip_folder's dict, in insertion order: <<key, value>> pairs
  success,       \* zip_folder's success flag
  zip,           \* the container: entries [name, data] in the order written
  hashLog,       \* the manifest file's text
  ret,           \* what zip_folder returned: [success, hashes]
  verifyResult,  \* what verify_integrity returned
  site,          \* the return statement verify_integrity left by
  fault,         \* the I/O fault the verification run met
  exitStatus,    \* the process exit status, once pc = "exit"
  failed,        \* history: files whose processing hit a per-file error
  writeErrors,   \* history: files whose container write failed (disk full)
  visits,        \* history: how often each file was visited
  aborted,       \* history: zip_folder left through its outer except
  envEvents,     \* history: number of concurrent source changes
  raced,         \* history: a source file changed between hash and write
  tampers,       \* history: number of changes to the archive at rest
  corrupted      \* history: the last entry whose stored content was changed

vars ==
  << tree, srcValid, verifyFlag, pc, todo, cur, file_hashes, success, zip,
     hashLog, ret, verifyResult, site, fault, exitStatus, failed,
     writeErrors, visits, aborted, envEvents, raced, tampers, corrupted >>

\* ------------------------------------------------------- pure functions

Hex ==
  << "0", "1", "2", "3", "4", "5", "6", "7",
     "8", "9", "a", "b", "c", "d", "e", "f" >>

\* hashlib.sha256(...).hexdigest(): lowercase hex of the hash value
hexdigest(c) == << Hex[((c \div 16) % 16) + 1], Hex[(c % 16) + 1] >>

None == << "None" >>

\* compute_file_hash: the digest, or None when the file cannot be read
compute_file_hash(f) == IF f.readable THEN hexdigest(f.data) ELSE None

\* path.replace('\\', '/')
normalize_path(path) ==
  [i \in 1 .. Len(path) |-> IF path[i] = "\\" THEN "/" ELSE path[i]]

\* ---- the dict file_hashes / original_hashes (insertion ordered)
DictKeys(d) == { d[i][1] : i \in 1 .. Len(d) }

DictHas(d, k) == \E i \in 1 .. Len(d) : d[i][1] = k

DictGet(d, k) == d[CHOOSE i \in 1 .. Len(d) : d[i][1] = k][2]

DictSet(d, k, v) ==
  IF DictHas(d, k)
    THEN [i \in 1 .. Len(d) |-> IF d[i][1] = k THEN <<k, v>> ELSE d[i]]
    ELSE Append(d, <<k, v>>)

\* ---- manifest writer: f.write(f"{file_path}:{file_hash}\n") per item
ManifestLine(k, v) == k \o <<":">> \o v \o <<"\n">>

RECURSIVE WriteManifest(_)
WriteManifest(d) ==
  IF d = <<>> THEN <<>>
  ELSE ManifestLine(d[1][1], d[1][2]) \o WriteManifest(Tail(d))

\* ---- manifest reader
Whitespace == { " ", "\n" }

RECURSIVE LStrip(_)
LStrip(s) ==
  IF s # <<>> /\ Head(s) \in Whitespace THEN LStrip(Tail(s)) ELSE s

RECURSIVE RStrip(_)
RStrip(s) ==
  IF s # <<>> /\ s[Len(s)] \in Whitespace
    THEN RStrip(SubSeq(s, 1, Len(s) - 1))
    ELSE s

\* line.strip()
Strip(s) == RStrip(LStrip(s))

\* `for line in f`: the text cut after every newline
RECURSIVE FileLines(_)
FileLines(text) ==
  IF text = <<>> THEN <<>>
  ELSE IF \E i \in 1 .. Len(text) : text[i] = "\n"
    THEN LET n == CHOOSE i \in 1 .. Len(text) :
                    /\ text[i] = "\n"
                    /\ \A j \in 1 .. i - 1 : text[j] # "\n"
         IN  <<SubSeq(text, 1, n)>> \o FileLines(SubSeq(text, n + 1, Len(text)))
    ELSE <<text>>

\* s.split(':'): cut at every colon
RECURSIVE Split(_)
Split(s) ==
  IF \E i \in 1 .. Len(s) : s[i] = ":"
    THEN LET n == CHOOSE i \in 1 .. Len(s) :
                    /\ s[i] = ":"
                    /\ \A j \in 1 .. i - 1 : s[j] # ":"
         IN  <<SubSeq(s, 1, n - 1)>> \o Split(SubSeq(s, n + 1, Len(s)))
    ELSE <<s>>

\* file_path, file_hash = line.strip().split(':') raises ValueError unless
\* the split gives exactly two parts
RECURSIVE ReadLines(_, _)
ReadLines(lines, d) ==
  IF lines = <<>> THEN [ok |-> TRUE, dict |-> d]
  ELSE LET parts == Split(Strip(Head(lines)))
       IN  IF Len(parts) # 2
             THEN [ok |-> FALSE, dict |-> <<>>]
             ELSE ReadLines(Tail(lines), DictSet(d, parts[1], parts[2]))

ReadManifest(text) == ReadLines(FileLines(text), <<>>)

\* ---- the container
EntryNames(z) == { z[i].name : i \in 1 .. Len(z) }

\* ZipFile.getinfo: NameToInfo keeps the entry written last under a name
Resolve(z, name) ==
  CHOOSE i \in 1 .. Len(z) :
    /\ z[i].name = name
    /\ \A j \in i + 1 .. Len(z) : z[j].name # name

NoFault == [kind |-> "none", path |-> <<>>]

\* return value of the `if extracted_hash != original_hashes[file_path]` branch
MismatchOutcome == FALSE

\* fault injection for C2: the comparison never reports a difference
HashesDiffer_Never(extracted_hash, recorded) == FALSE

\* extracted_hash != original_hashes[file_path]
HashesDiffer(extracted_hash, recorded) == extracted_hash # recorded

\* the loop of verify_integrity over original_hashes.keys(), fail-fast
RECURSIVE VerifyEntries(_, _, _, _)
VerifyEntries(keys, d, z, flt) ==
  IF keys = <<>> THEN [ret |-> TRUE, site |-> "ok"]
  ELSE LET file_path == Head(keys)[1] IN
    IF file_path \notin EntryNames(z)
         \/ (flt.kind = "extract" /\ flt.path = file_path)
      THEN [ret |-> FALSE, site |-> "extract"]
    ELSE LET extracted_hash ==
               compute_file_hash(
                 [data |-> z[Resolve(z, file_path)].data,
                  readable |-> ~(flt.kind = "rehash" /\ flt.path = file_path)])
         IN  IF extracted_hash = None
               THEN [ret |-> FALSE, site |-> "rehash"]
             ELSE IF HashesDiffer(extracted_hash, DictGet(d, file_path))
               THEN [ret |-> MismatchOutcome, site |-> "mismatch"]
             ELSE VerifyEntries(Tail(keys), d, z, flt)

verify_integrity(z, text, flt) ==
  LET m == ReadManifest(text)
  IN  IF ~m.ok THEN [ret |-> FALSE, site |-> "parse"]
      ELSE VerifyEntries(m.dict, m.dict, z, flt)

\* ------------------------------------------------------------- initial

Init ==
  /\ \E S \in SUBSET NativePaths :
       /\ Cardinality(S) <= MaxFiles
       /\ tree \in [S -> [data : Contents, readable : {TRUE}]]
  /\ srcValid \in BOOLEAN
  /\ verifyFlag \in BOOLEAN
  /\ pc = "start"
  /\ todo = {}
  /\ cur = <<>>
  /\ file_hashes = <<>>
  /\ success = TRUE
  /\ zip = <<>>
  /\ hashLog = <<>>
  /\ ret = [success |-> FALSE, hashes |-> <<>>]
  /\ verifyResult = FALSE
  /\ site = "none"
  /\ fault = NoFault
  /\ exitStatus = -1
  /\ failed = {}
  /\ writeErrors = {}
  /\ visits = [f \in DOMAIN tree |-> 0]
  /\ aborted = FALSE
  /\ envEvents = 0
  /\ raced = FALSE
  /\ tampers = 0
  /\ corrupted = <<>>

\* ------------------------------------------------------------- actions

hist == << failed, writeErrors, visits, aborted, envEvents, raced, tampers, corrupted >>
verif == << verifyResult, site, fault >>
args == << srcValid, verifyFlag >>

\* sys.exit(code)
Exit(code) == pc' = "exit" /\ exitStatus' = code

\* main: the source folder check
MainStart ==
  /\ pc = "start"
  /\ IF ~srcValid THEN Exit(1) ELSE pc' = "open" /\ UNCHANGED exitStatus
  /\ UNCHANGED << tree, args, todo, cur, file_hashes, success, zip, hashLog,
                  ret, verif, hist >>

\* zip_folder's `except Exception`: return False, {}
Abort ==
  /\ ret' = [success |-> FALSE, hashes |-> <<>>]
  /\ aborted' = TRUE
  /\ pc' = "zipret"

\* zipfile.ZipFile(output_zip, 'w', ...) creates the container, os.walk starts
OpenZip ==
  /\ pc = "open"
  /\ zip' = <<>>
  /\ todo' = DOMAIN tree
  /\ pc' = "walk"
  /\ UNCHANGED << tree, args, cur, file_hashes, success, hashLog, ret, verif,
                  exitStatus, hist >>

\* the container cannot be created
OpenZipFails ==
  /\ pc = "open"
  /\ Abort
  /\ UNCHANGED << tree, args, todo, cur, file_hashes, success, zip, hashLog,
                  verif, exitStatus, failed, writeErrors, visits, envEvents,
                  raced, tampers, corrupted >>

\* fault injection for C3: an unreadable file is skipped without a mark
SuccessAfterHashNone_Keep(s) == s

\* what the `if file_hash is None` branch leaves in the success flag
SuccessAfterHashNone(s) == FALSE

\* one loop iteration up to `file_hashes[zip_path] = file_hash`
HashFile ==
  /\ pc = "walk"
  /\ \E file_path \in todo :
       LET zip_path == normalize_path(file_path)
           file_hash == compute_file_hash(tree[file_path])
       IN  /\ todo' = todo \ {file_path}
           /\ visits' = [visits EXCEPT ![file_path] = @ + 1]
           /\ cur' = file_path
           /\ IF file_hash = None
                THEN /\ success' = SuccessAfterHashNone(success)
                     /\ failed' = failed \cup {file_path}
                     /\ pc' = "walk"
                     /\ UNCHANGED file_hashes
                ELSE /\ file_hashes' = DictSet(file_hashes, zip_path, file_hash)
                     /\ pc' = "write"
                     /\ UNCHANGED << success, failed >>
  /\ UNCHANGED << tree, args, zip, hashLog, ret, verif, exitStatus,
                  writeErrors, aborted, envEvents, raced, tampers, corrupted >>

\* zipf.write(file_path, zip_path): the entry holds the bytes read now
WriteEntry ==
  /\ pc = "write"
  /\ tree[cur].readable
  /\ zip' = Append(zip, [name |-> normalize_path(cur), data |-> tree[cur].data])
  /\ pc' = "walk"
  /\ UNCHANGED << tree, args, todo, cur, file_hashes, success, hashLog, ret,
                  verif, exitStatus, hist >>

\* zipf.write raises OSError because the source file is gone or unreadable:
\* the inner `except (IOError, OSError)`
WriteSourceError ==
  /\ pc = "write"
  /\ ~tree[cur].readable
  /\ success' = FALSE
  /\ failed' = failed \cup {cur}
  /\ pc' = "walk"
  /\ UNCHANGED << tree, args, todo, cur, file_hashes, zip, hashLog, ret,
                  verif, exitStatus, writeErrors, visits, aborted, envEvents,
                  raced, tampers, corrupted >>

\* zipf.write raises OSError because the container cannot be written (disk
\* full, permission): the same inner `except (IOError, OSError)`
WriteContainerError ==
  /\ pc = "write"
  /\ success' = FALSE
  /\ failed' = failed \cup {cur}
  /\ writeErrors' = writeErrors \cup {cur}
  /\ pc' = "walk"
  /\ UNCHANGED << tree, args, todo, cur, file_hashes, zip, hashLog, ret,
                  verif, exitStatus, visits, aborted, envEvents, raced,
                  tampers, corrupted >>

\* zipf.write raises something that is no OSError (ValueError for a
\* timestamp before 1980, LargeZipFile, ...): the outer `except Exception`
WriteFatal ==
  /\ pc = "write"
  /\ Abort
  /\ UNCHANGED << tree, args, todo, cur, file_hashes, success, zip, hashLog,
                  verif, exitStatus, failed, writeErrors, visits, envEvents,
                  raced, tampers, corrupted >>

\* the walk is over: the manifest is written and zip_folder returns
SaveHashes ==
  /\ pc = "walk"
  /\ todo = {}
  /\ hashLog' = WriteManifest(file_hashes)
  /\ ret' = [success |-> success, hashes |-> file_hashes]
  /\ pc' = "zipret"
  /\ UNCHANGED << tree, args, todo, cur, file_hashes, success, zip, verif,
                  exitStatus, hist >>

\* open(hash_log, 'w') fails: the outer `except Exception`
SaveHashesFails ==
  /\ pc = "walk"
  /\ todo = {}
  /\ Abort
  /\ UNCHANGED << tree, args, todo, cur, file_hashes, success, zip, hashLog,
                  verif, exitStatus, failed, writeErrors, visits, envEvents,
                  raced, tampers, corrupted >>

\* fault injection for C5: main goes on although zip_folder reported failure
MainAfterZip_IgnoreFailure ==
  /\ pc = "zipret"
  /\ IF verifyFlag THEN pc' = "verify" /\ UNCHANGED exitStatus ELSE Exit(0)
  /\ UNCHANGED << tree, args, todo, cur, file_hashes, success, zip, hashLog,
                  ret, verif, hist >>

\* main after zip_folder returned
MainAfterZip ==
  /\ pc = "zipret"
  /\ IF ~ret.success THEN Exit(1)
     ELSE IF verifyFlag THEN pc' = "verify" /\ UNCHANGED exitStatus
     ELSE Exit(0)
  /\ UNCHANGED << tree, args, todo, cur, file_hashes, success, zip, hashLog,
                  ret, verif, hist >>

\* the I/O faults one verification run can meet: extraction of one listed
\* path raises, or the extracted file cannot be read back
Faults(text) ==
  {NoFault} \cup
    [kind : {"extract", "rehash"}, path : DictKeys(ReadManifest(text).dict)]

\* main: `if args.verify:` to the end: verify_integrity(args.output,
\* hash_log), then exit 1 on False and fall off the end (exit 0) on True
Verify ==
  /\ pc = "verify"
  /\ \E flt \in Faults(hashLog) :
       LET r == verify_integrity(zip, hashLog, flt)
       IN  /\ verifyResult' = r.ret
           /\ site' = r.site
           /\ fault' = flt
           /\ IF r.ret THEN Exit(0) ELSE Exit(1)
  /\ UNCHANGED << tree, args, todo, cur, file_hashes, success, zip, hashLog,
                  ret, hist >>

\* ---- the environment

\* the files zip_folder has still to read: those not yet visited, and the
\* current one between its hash and its write.  A change to any other file
\* is never seen by the program.
StillRead == todo \cup (IF pc = "write" THEN {cur} ELSE {})

\* another process rewrites a source file while zip_folder runs
SourceModified ==
  /\ pc \in {"walk", "write"}
  /\ envEvents < MaxEnvEvents
  /\ \E f \in StillRead, c \in Contents :
       /\ tree[f].readable
       /\ c # tree[f].data
       /\ tree' = [tree EXCEPT ![f].data = c]
       /\ raced' = (raced \/ (pc = "write" /\ f = cur))
  /\ envEvents' = envEvents + 1
  /\ UNCHANGED << args, pc, todo, cur, file_hashes, success, zip, hashLog,
                  ret, verif, exitStatus, failed, writeErrors, visits,
                  aborted, tampers, corrupted >>

\* a source file disappears or becomes unreadable while zip_folder runs
SourceUnreadable ==
  /\ pc \in {"walk", "write"}
  /\ envEvents < MaxEnvEvents
  /\ \E f \in StillRead :
       /\ tree[f].readable
       /\ tree' = [tree EXCEPT ![f].readable = FALSE]
  /\ envEvents' = envEvents + 1
  /\ UNCHANGED << args, pc, todo, cur, file_hashes, success, zip, hashLog,
                  ret, verif, exitStatus, failed, writeErrors, visits,
                  aborted, raced, tampers, corrupted >>

\* the stored content of one container entry is changed at rest
CorruptEntry ==
  /\ pc = "verify"
  /\ tampers < MaxTamper
  /\ \E i \in 1 .. Len(zip), c \in Contents :
       /\ c # zip[i].data
       /\ zip' = [zip EXCEPT ![i].data = c]
       /\ corrupted' = << [idx |-> i, old |-> zip[i].data] >>
  /\ tampers' = tampers + 1
  /\ UNCHANGED << tree, args, pc, todo, cur, file_hashes, success, hashLog,
                  ret, verif, exitStatus, failed, writeErrors, visits,
                  aborted, envEvents, raced >>

\* one character of the manifest file is overwritten at rest
TamperManifest ==
  /\ pc = "verify"
  /\ tampers < MaxTamper
  /\ \E i \in 1 .. Len(hashLog) :
       hashLog' = [hashLog EXCEPT ![i] = "x"]
  /\ tampers' = tampers + 1
  /\ UNCHANGED << tree, args, pc, todo, cur, file_hashes, success, zip, ret,
                  verif, exitStatus, failed, writeErrors, visits, aborted,
                  envEvents, raced, corrupted >>

Next ==
  \/ MainStart
  \/ OpenZip
  \/ OpenZipFails
  \/ HashFile
  \/ WriteEntry
  \/ WriteSourceError
  \/ WriteContainerError
  \/ WriteFatal
  \/ SaveHashes
  \/ SaveHashesFails
  \/ MainAfterZip
  \/ Verify
  \/ SourceModified
  \/ SourceUnreadable
  \/ CorruptEntry
  \/ TamperManifest

Spec == Init /\ [][Next]_vars

\* the program with a concurrently changing source tree, archive untouched
NextArchive ==
  \/ MainStart
  \/ OpenZip
  \/ OpenZipFails
  \/ HashFile
  \/ WriteEntry
  \/ WriteSourceError
  \/ WriteContainerError
  \/ WriteFatal
  \/ SaveHashes
  \/ SaveHashesFails
  \/ MainAfterZip
  \/ Verify
  \/ SourceModified
  \/ SourceUnreadable

SpecArchive == Init /\ [][NextArchive]_vars

\* the program with a quiet source tree, archive changed at rest
NextVerify ==
  \/ MainStart
  \/ OpenZip
  \/ OpenZipFails
  \/ HashFile
  \/ WriteEntry
  \/ WriteContainerError
  \/ WriteFatal
  \/ SaveHashes
  \/ SaveHashesFails
  \/ MainAfterZip
  \/ Verify
  \/ CorruptEntry
  \/ TamperManifest

SpecVerify == Init /\ [][NextVerify]_vars

\* ------------------------------------------------------------ properties

Returned == pc = "zipret" /\ ~aborted
Verified == site # "none"
PortablePaths == { normalize_path(f) : f \in DOMAIN tree }
Stored(name) == zip[Resolve(zip, name)].data

\* C1: a freshly produced archive, left untouched and verified without an
\* I/O fault (and with no concurrent change of the source), verifies: for
\* every source tree verify_integrity returns True.
C1_RoundTrip ==
  (Verified /\ ret.success /\ tampers = 0 /\ envEvents = 0 /\ fault = NoFault)
    => verifyResult = TRUE

\* the entry changed last is the one its name resolves to, the manifest
\* lists that name, and the recorded digest was that of the old content
CorruptedListedEntry ==
  /\ corrupted # <<>>
  /\ LET m == ReadManifest(hashLog)
         e == zip[corrupted[1].idx]
     IN  /\ m.ok
         /\ DictHas(m.dict, e.name)
         /\ Resolve(zip, e.name) = corrupted[1].idx
         /\ DictGet(m.dict, e.name) = hexdigest(corrupted[1].old)

C3_Completeness ==
  (pc = "zipret" /\ ret.success) =>
    /\ DictKeys(ret.hashes) = PortablePaths
    /\ EntryNames(zip) = PortablePaths
    /\ Len(zip) = Cardinality(DOMAIN tree)
    /\ \A f \in DOMAIN tree : visits[f] = 1

C3_Witness ==
  /\ pc = "zipret"
  /\ ret.success
  /\ Cardinality(DOMAIN tree) >= 2
  /\ <<"d", "\\", "a">> \in DOMAIN tree
  /\ <<"d", "/", "a">> \in EntryNames(zip)

\* C4: after a run that was not aborted and met no container write error,
\* a file that hit a per-file error is in neither the container nor the
\* manifest (unless another file shares its portable path), the success
\* flag is False, every file was still visited, and the manifest's paths
\* are exactly the container's entry names.
C4_PerFileError ==
  (Returned /\ writeErrors = {}) =>
    /\ \A f \in failed :
         (\A g \in DOMAIN tree : g # f => normalize_path(g) # normalize_path(f))
           => /\ normalize_path(f) \notin DictKeys(ret.hashes)
              /\ normalize_path(f) \notin EntryNames(zip)
    /\ failed # {} => ~ret.success
    /\ \A f \in DOMAIN tree : visits[f] = 1
    /\ DictKeys(ret.hashes) = EntryNames(zip)

\* C5: the exit status is 0 exactly when the source is a directory, no file
\* failed, the run was not aborted and verification was not requested or
\* returned True; otherwise it is 1.  Verification runs only after
\* zip_folder reported success.
C5_ExitStatus ==
  /\ pc = "exit" =>
       /\ exitStatus \in {0, 1}
       /\ exitStatus = 0 <=>
            /\ srcValid
            /\ failed = {}
            /\ ~aborted
            /\ (~verifyFlag \/ (Verified /\ verifyResult))
  /\ (pc = "verify" \/ Verified) =>
       (ret.success /\ verifyFlag)

C5_Witness ==
  /\ pc = "exit"
  /\ exitStatus = 0
  /\ verifyFlag
  /\ site = "ok"
  /\ Cardinality(DOMAIN tree) >= 2

\* C6: reading the manifest zip_folder wrote gives back the mapping that was
\* written, for every mapping; and a manifest with a line that holds no
\* colon makes verify_integrity return False.
C6_ManifestRoundTrip ==
  /\ Returned => ReadManifest(hashLog) = [ok |-> TRUE, dict |-> ret.hashes]
  /\ (Verified /\ \E i \in 1 .. Len(FileLines(hashLog)) :
                    Len(Split(Strip(FileLines(hashLog)[i]))) = 1)
       => verifyResult = FALSE

\* C7: whatever another process does to the source while zip_folder runs,
\* for every path of the resulting manifest the recorded digest is the hash
\* of the bytes stored in the container entry of that path.
C7_SelfConsistent ==
  (Returned /\ failed = {}) =>
    \A k \in DictKeys(ret.hashes) :
      k \in EntryNames(zip) => DictGet(ret.hashes, k) = hexdigest(Stored(k))

\* C8: once writing an entry to the container has failed, no further file
\* is processed, and zip_folder reports failure.
C8_WriteErrorFatal ==
  writeErrors # {} =>
    /\ cur \in writeErrors
    /\ pc = "zipret" => ~ret.success

\* C9: the outcome of a manifest parse error, and of an extraction error,
\* differs from the outcome of a digest mismatch.
C9_Distinguishable ==
  site \in {"parse", "extract"} => verifyResult # MismatchOutcome

\* C10: the container never holds two entries of the same name, the
\* manifest of a run without per-file error holds one entry per file, and
\* normalize_path changes backslashes to forward slashes and nothing else.
C10_UniquePortablePaths ==
  /\ \A i, j \in 1 .. Len(zip) : i # j => zip[i].name # zip[j].name
  /\ (Returned /\ failed = {}) => Len(ret.hashes) = Cardinality(DOMAIN tree)
  /\ \A p \in NativePaths :
       /\ Len(normalize_path(p)) = Len(p)
       /\ \A i \in 1 .. Len(p) :
            normalize_path(p)[i] = IF p[i] = "\\" THEN "/" ELSE p[i]
====
